---- MODULE Spec2Model ----
(***************************************************************************)
(* A model of glh.py (Gitlab Helper): the configuration store, the command *)
(* line dispatch of __main__, the group walk of gitlab_helper and the      *)
(* per-project synchronisation of gitlab_helper.update_project.            *)
(*                                                                         *)
(* Strings are sequences of atoms.  An atom is a run of characters that    *)
(* holds none of the characters the code looks for ("/" and ","); a URL    *)
(* base and a host name are written one character per atom, because        *)
(* str.lstrip looks at single characters.  An optional command line value  *)
(* is <<>> (None) or <<s>> (the string s).                                 *)
(***************************************************************************)
EXTENDS Naturals, Sequences, FiniteSets, TLC

\* At most this many external commands of one update_project call exit non-zero.
MaxFailures == 1
\* At most this many command line flags are supplied to one run.
MaxFlags == 2

(***************************************************************************)
(* String functions of the Python library, as the code uses them.          *)
(***************************************************************************)
\* str.replace(old, new, 1): the first occurrence only
ReplaceFirstOnly(s, old, new) ==
    [i \in 1..Len(s) |->
        IF s[i] = old /\ (\A j \in 1..(i - 1) : s[j] # old) THEN new ELSE s[i]]

\* str.replace(old, new) for a one-atom old
Replace(s, old, new) == [i \in 1..Len(s) |-> IF s[i] = old THEN new ELSE s[i]]

\* str.lstrip(chars): drops every leading atom that is in the set chars
RECURSIVE LStrip(_, _)
LStrip(s, chars) ==
    IF s # <<>> /\ Head(s) \in chars THEN LStrip(Tail(s), chars) ELSE s

RECURSIVE SplitFrom(_, _, _)
SplitFrom(s, sep, cur) ==
    IF s = <<>> THEN <<cur>>
    ELSE IF Head(s) = sep THEN <<cur>> \o SplitFrom(Tail(s), sep, <<>>)
    ELSE SplitFrom(Tail(s), sep, Append(cur, Head(s)))

\* str.split(sep): "a,b," gives ["a", "b", ""], "" gives [""]
Split(s, sep) == SplitFrom(s, sep, <<>>)

\* str.strip(): drops leading and trailing blanks
RECURSIVE RStrip(_)
RStrip(s) == IF s # <<>> /\ s[Len(s)] = " " THEN RStrip(SubSeq(s, 1, Len(s) - 1)) ELSE s
Strip(s) == RStrip(LStrip(s, {" "}))

\* str.lower(), on the words an operator types at the prompt
LowerAtom(a) ==
    CASE a = "ALL" -> "all"
      [] a = "Projects" -> "projects"
      [] a = "GROUPS" -> "groups"
      [] OTHER -> a
Lower(s) == [i \in 1..Len(s) |-> LowerAtom(s[i])]

\* truth value of an optional string: None and "" are false
Truthy(opt) == opt # <<>> /\ opt[1] # <<>>

(***************************************************************************)
(* Names.                                                                  *)
(***************************************************************************)
HTTPS == <<"h", "t", "t", "p", "s", ":", "/", "/">>
\* the characters of the argument of lstrip('https://')
HttpsChars == {"h", "t", "p", "s", ":", "/"}
DEFAULT == <<"D", "E", "F", "A", "U", "L", "T">>
ExampleHost == <<"g", "i", "t", "l", "a", "b", ".", "e", "x", "a", "m", "p", "l", "e", ".", "c", "o", "m">>
ScmHost == <<"s", "c", "m", ".", "i", "o">>
NoSuchHost == <<"n", "/", "a">>
PlaceholderUser == <<"your-username">>
PlaceholderToken == <<"your-private-token">>

teamA == <<"teamA">>
teamA_infra == <<"teamA", "/", "infra">>
svc1 == <<"teamA", "/", "svc1">>
tool1 == <<"teamA", "/", "infra", "/", "tool1">>
ghost == <<"nogroup", "/", "ghost">>
root == <<"r">>
root_a == <<"r", "/", "a">>
root_b == <<"r", "/", "b">>
shared == <<"r", "/", "shared">>
proj_a == <<"r", "/", "a", "/", "pa">>
proj_s == <<"r", "/", "shared", "/", "ps">>
nogroup == <<"nogroup">>

(***************************************************************************)
(* The remote instance: the answers of its API and the default branch of   *)
(* each repository.  TeamWorld is the hierarchy of the end-to-end          *)
(* scenario; DiamondWorld has a group that two subgroup paths reach.       *)
(***************************************************************************)
TeamWorld ==
    [name |-> "team",
     groups |-> <<teamA, teamA_infra>>,
     projects |-> (teamA :> <<svc1>>) @@ (teamA_infra :> <<tool1>>),
     subgroups |-> (teamA :> <<teamA_infra>>) @@ (teamA_infra :> <<>>),
     default_branch |-> (svc1 :> "master") @@ (tool1 :> "main"),
     projects_arg |-> ghost \o <<",">> \o svc1,
     groups_arg |-> teamA_infra \o <<",">> \o teamA]

DiamondWorld ==
    [name |-> "diamond",
     groups |-> <<root>>,
     projects |-> (root :> <<>>) @@ (root_a :> <<proj_a>>) @@ (root_b :> <<>>)
                  @@ (shared :> <<proj_s>>),
     subgroups |-> (root :> <<root_a, root_b>>) @@ (root_a :> <<shared>>)
                   @@ (root_b :> <<shared>>) @@ (shared :> <<>>),
     default_branch |-> (proj_a :> "master") @@ (proj_s :> "main"),
     projects_arg |-> proj_s \o <<",">> \o proj_a,
     groups_arg |-> nogroup \o <<",">> \o root_a]

Worlds == {TeamWorld, DiamondWorld}

VARIABLES
    world,        \* the remote instance of this behaviour
    config,       \* the configuration file ~/.glh/glh.ini
    dir_exists,   \* the project paths that exist in the working directory
    master_ref,   \* the project paths whose .git/refs/heads/master exists
    pc,           \* where the process is
    args,         \* the parsed command line of the run
    cloner,       \* the gitlab_helper object of the run
    startConfig,  \* the configuration file as the run found it
    mode,         \* the mode __main__ selected
    method,       \* the cloner method the run called
    exitCode,     \* the exit status of the finished run
    uncaught,     \* the exception that ended the run, or "none"
    printed,      \* the message the run printed
    groupQueue,   \* the groups left in the loop of clone_all / clone_selected_groups
    stack,        \* the frames of clone_group_recursively, innermost last
    projQueue,    \* the projects left in the loop of clone_selected_repositories
    updCalls,     \* the update_project calls of the run, in order
    lastCall,     \* the inputs of the latest update_project call
    lastCmds,     \* the os.system commands of the latest update_project call
    lastLog,      \* the log records of the latest update_project call
    listFailed,   \* whether a list request of the run failed
    lastList,     \* the list request the latest step made (NoList: it made none)
    sawRaise,     \* whether an earlier update_project call of the run caught an exception
    visited,      \* the clone_group_recursively calls of the run, in order
    lastReqs      \* the API requests of the latest update_project call

vars == <<world, config, dir_exists, master_ref, pc, args, cloner, startConfig, mode,
          method, exitCode,
          uncaught, printed, groupQueue, stack, projQueue, updCalls, lastCall,
          lastCmds, lastLog, listFailed, lastList, sawRaise, visited, lastReqs>>

(***************************************************************************)
(* The configuration store (configparser over ~/.glh/glh.ini).             *)
(***************************************************************************)
NoConfig == [exists |-> FALSE, selected_url |-> <<>>, sections |-> <<>>]

\* "name in config": true of the default section and of every named section
InConfig(cfg, name) == name = DEFAULT \/ name \in DOMAIN cfg.sections

PlaceholderProfile(fqdn) ==
    [url |-> HTTPS \o fqdn, user |-> PlaceholderUser, private_token |-> PlaceholderToken]

create_config_file ==
    [exists |-> TRUE,
     selected_url |-> ExampleHost,
     sections |-> (ExampleHost :> PlaceholderProfile(ExampleHost))]

\* the configuration add_config_section leaves, and what it prints
add_config_section(cfg, fqdn) ==
    IF ~InConfig(cfg, fqdn)
    THEN [config |-> [cfg EXCEPT !.sections = (fqdn :> PlaceholderProfile(fqdn)) @@ @],
          printed |-> "section_added"]
    ELSE [config |-> cfg, printed |-> "section_exists"]

\* set_selected_url without its exit(1)
set_selected_url_exits_zero(cfg, fqdn) ==
    IF InConfig(cfg, fqdn)
    THEN [config |-> [cfg EXCEPT !.selected_url = fqdn],
          printed |-> "selected_set", exited |-> FALSE, code |-> 0]
    ELSE [config |-> cfg, printed |-> "error_no_section", exited |-> FALSE, code |-> 0]

\* set_selected_url writing the name before it looks for the section
set_selected_url_selects_anyway(cfg, fqdn) ==
    IF InConfig(cfg, fqdn)
    THEN [config |-> [cfg EXCEPT !.selected_url = fqdn],
          printed |-> "selected_set", exited |-> FALSE, code |-> 0]
    ELSE [config |-> [cfg EXCEPT !.selected_url = fqdn],
          printed |-> "error_no_section", exited |-> TRUE, code |-> 1]

\* the configuration set_selected_url leaves, what it prints, and whether it
\* ends the process itself (exit(1)) or returns to __main__
set_selected_url(cfg, fqdn) ==
    IF InConfig(cfg, fqdn)
    THEN [config |-> [cfg EXCEPT !.selected_url = fqdn],
          printed |-> "selected_set", exited |-> FALSE, code |-> 0]
    ELSE [config |-> cfg, printed |-> "error_no_section", exited |-> TRUE, code |-> 1]

(***************************************************************************)
(* gitlab_helper.__init__                                                  *)
(***************************************************************************)
NoCloner ==
    [gitlab_url |-> <<>>, user |-> <<>>, private_token |-> <<>>,
     gitlab_url_with_token |-> <<>>]

gitlab_helper(gitlab_url, user, private_token) ==
    [gitlab_url |-> gitlab_url,
     user |-> user,
     private_token |-> private_token,
     gitlab_url_with_token |->
         HTTPS \o user \o <<":">> \o private_token \o <<"@">>
               \o LStrip(gitlab_url, HttpsChars)]

(***************************************************************************)
(* The profile loading of __main__: the outcome of lines 306-320.          *)
(***************************************************************************)
LoadProfile(cfg) ==
    IF ~InConfig(cfg, cfg.selected_url)
    THEN [ok |-> FALSE, printed |-> "no_config_for_selected", uncaught |-> "none",
          cloner |-> NoCloner]
    ELSE IF cfg.selected_url \notin DOMAIN cfg.sections
    THEN \* config["DEFAULT"]["url"]: the default section has no url
         [ok |-> FALSE, printed |-> "", uncaught |-> "KeyError", cloner |-> NoCloner]
    ELSE LET p == cfg.sections[cfg.selected_url]
         IN  [ok |-> TRUE, printed |-> "", uncaught |-> "none",
              cloner |-> gitlab_helper(p.url, p.user, p.private_token)]

(***************************************************************************)
(* The mode dispatch of __main__.                                          *)
(***************************************************************************)
\* the dispatch with --all tested last
SelectModeProjectsFirst(a) ==
    IF Truthy(a.projects) THEN "projects"
    ELSE IF Truthy(a.groups) THEN "groups"
    ELSE IF a.all THEN "all"
    ELSE "prompt"

SelectMode(a) ==
    IF a.all THEN "all"
    ELSE IF Truthy(a.projects) THEN "projects"
    ELSE IF Truthy(a.groups) THEN "groups"
    ELSE "prompt"

\* the cloner method a mode calls
MethodOf(m) ==
    CASE m = "all" -> "clone_all"
      [] m = "projects" -> "clone_selected_repositories"
      [] m = "groups" -> "clone_selected_groups"
      [] OTHER -> "none"

(***************************************************************************)
(* gitlab_helper.update_project.  meta is the answer of the project        *)
(* metadata request: "URLError" (transport failure), "JSONDecodeError"     *)
(* (undecodable body), "list" (a JSON value without .get), "archived",     *)
(* or "active" (archived is false or missing: project_info.get gives a     *)
(* false value for both); fails is the set of commands that exit non-zero. *)
(***************************************************************************)
MetaAnswers == {"URLError", "JSONDecodeError", "list", "archived", "active"}

\* the exception lines 147-150 raise
RaisedBy(meta) ==
    CASE meta = "URLError" -> "URLError"
      [] meta = "JSONDecodeError" -> "JSONDecodeError"
      [] meta = "list" -> "AttributeError"
      [] OTHER -> "none"

\* project_info.get("archived")
Archived(meta) == meta = "archived"

\* a handler "except error.URLError", as the list requests have first
CaughtURLErrorOnly(exc) == exc = "URLError"

\* "except Exception" of update_project: the exceptions it catches
Caught(exc) == exc \in {"URLError", "JSONDecodeError", "AttributeError"}

BranchOf(master) == IF master THEN <<"master">> ELSE <<"main">>

\* one os.system call: the git subcommand, the directory it is run in (<<>>:
\* the working directory), its arguments and its exit status
Sh(op, cwd, a1, a2, fails) ==
    [op |-> op, cwd |-> cwd, a1 |-> a1, a2 |-> a2,
     status |-> IF op \in fails THEN 1 ELSE 0]

GIT == <<".git">>

PullCmd(cl, project, master, fails) ==
    Sh("pull", project, cl.gitlab_url_with_token \o <<"/">> \o project \o GIT,
       BranchOf(master), fails)
AddCmd(project, fails) == Sh("add", project, <<".">>, <<>>, fails)
CommitCmd(project, fails) ==
    Sh("commit", project, <<"-m">>, <<"gitlab_helper", ":", " ", "%Y-%m-%d %H:%M:%S">>, fails)
SetUrlCmd(cl, project, fails) ==
    Sh("remote set-url", project, <<"origin">>,
       cl.gitlab_url \o <<"/">> \o project \o GIT, fails)
PushCmd(project, master, fails) ==
    Sh("push", project, <<"origin">>, BranchOf(master), fails)
ConfigCmd(project, fails) ==
    Sh("config credential.helper", project, <<"store">>, <<"--global", "store">>, fails)
CloneCmd(cl, project, fails) ==
    Sh("clone", <<>>, cl.gitlab_url_with_token \o <<"/">> \o project \o GIT, project, fails)

\* the branch without the test of line 150
PresentCmdsCommitsArchived(cl, project, master, meta, fails) ==
    <<PullCmd(cl, project, master, fails), AddCmd(project, fails)>>
    \o (IF RaisedBy(meta) # "none" THEN <<>>
        ELSE <<CommitCmd(project, fails), SetUrlCmd(cl, project, fails),
               PushCmd(project, master, fails)>>
             \o (IF Archived(meta) THEN <<>> ELSE <<ConfigCmd(project, fails)>>))

\* the branch with lines 155-158 exchanged
PresentCmdsPushBeforeSetUrl(cl, project, master, meta, fails) ==
    <<PullCmd(cl, project, master, fails), AddCmd(project, fails)>>
    \o (IF RaisedBy(meta) # "none" THEN <<>>
        ELSE (IF ~Archived(meta)
              THEN <<CommitCmd(project, fails), PushCmd(project, master, fails),
                     SetUrlCmd(cl, project, fails)>>
              ELSE <<>>)
             \o (IF Archived(meta) THEN <<>> ELSE <<ConfigCmd(project, fails)>>))

\* the branch with the request of lines 143-150 made before the pull
PresentCmdsAsksFirst(cl, project, master, meta, fails) ==
    IF RaisedBy(meta) # "none" THEN <<>>
    ELSE <<PullCmd(cl, project, master, fails), AddCmd(project, fails)>>
         \o (IF ~Archived(meta)
             THEN <<CommitCmd(project, fails), SetUrlCmd(cl, project, fails),
                    PushCmd(project, master, fails)>>
             ELSE <<>>)
         \o (IF Archived(meta) THEN <<>> ELSE <<ConfigCmd(project, fails)>>)

\* the os.system calls of the branch "the directory exists", lines 129-166
PresentCmds(cl, project, master, meta, fails) ==
    <<PullCmd(cl, project, master, fails), AddCmd(project, fails)>>
    \o (IF RaisedBy(meta) # "none" THEN <<>>
        ELSE (IF ~Archived(meta)
              THEN <<CommitCmd(project, fails), SetUrlCmd(cl, project, fails),
                     PushCmd(project, master, fails)>>
              ELSE <<>>)
             \o (IF Archived(meta) THEN <<>> ELSE <<ConfigCmd(project, fails)>>))

\* the branch with a pull after the clone
AbsentCmdsPullsToo(cl, project, fails) ==
    <<CloneCmd(cl, project, fails), PullCmd(cl, project, FALSE, fails)>>

\* the os.system calls of the branch "the directory does not exist", lines 167-171
AbsentCmds(cl, project, fails) == <<CloneCmd(cl, project, fails)>>

\* the request of lines 143-146: the URL asked for, as base and path
ProjectRequest(cl, project) ==
    [base |-> cl.gitlab_url,
     path |-> <<"/", "api", "/", "v4", "/", "projects", "/">> \o Replace(project, "/", "%2F")]

Info(msg, project) == [level |-> "INFO", msg |-> msg, project |-> project]
Error(msg, project) == [level |-> "ERROR", msg |-> msg, project |-> project]

\* the log records of one call
UpdateLog(project, exists, meta) ==
    <<Info("Processing project", project)>>
    \o (IF exists
        THEN <<Info("Branch", <<>>), Info("already exists. Performing git pull", project)>>
             \o (IF RaisedBy(meta) # "none" /\ Caught(RaisedBy(meta))
                 THEN <<Error("Error updating project", project)>>
                 ELSE IF RaisedBy(meta) = "none" /\ Archived(meta)
                 THEN <<Info("is archived. Skipping", project)>>
                 ELSE <<>>)
        ELSE <<Info("does not exist. Cloning", project)>>)

\* one call of update_project: its commands, its log and the exception that
\* leaves it ("none": it returns)
update_project(cl, project, exists, master, meta, fails) ==
    [cmds |-> IF exists THEN PresentCmds(cl, project, master, meta, fails)
              ELSE AbsentCmds(cl, project, fails),
     log |-> UpdateLog(project, exists, meta),
     reqs |-> IF exists THEN <<ProjectRequest(cl, project)>> ELSE <<>>,
     raises |-> IF exists /\ RaisedBy(meta) # "none" /\ ~Caught(RaisedBy(meta))
                THEN RaisedBy(meta) ELSE "none"]

\* the git subcommands a call runs
OpsRun(exists, meta) ==
    IF ~exists THEN {"clone"}
    ELSE {"pull", "add"}
         \cup (IF RaisedBy(meta) = "none" /\ ~Archived(meta)
               THEN {"commit", "remote set-url", "push", "config credential.helper"}
               ELSE {})

NoCall == [project |-> <<>>, exists |-> FALSE, master |-> FALSE, meta |-> "none"]

(***************************************************************************)
(* The list requests of gitlab_helper.  answer is what the request meets:  *)
(* "ok", a transport failure ("URLError") or a body that does not decode   *)
(* ("JSONDecodeError"); for a group the instance does not have urlopen     *)
(* raises HTTPError, which is a URLError.  Each request gives the list     *)
(* returned, the exception its try block met (exc), the request made, the  *)
(* log records written and the exception that leaves the method (raises,   *)
(* "none": it returns).                                                    *)
(***************************************************************************)
ListAnswers == {"ok", "URLError", "JSONDecodeError"}

ListRaisedBy(known, answer) ==
    IF answer = "URLError" THEN "URLError"
    ELSE IF ~known THEN "HTTPError"
    ELSE IF answer = "JSONDecodeError" THEN "JSONDecodeError"
    ELSE "none"

\* "except error.URLError"
NetworkError(exc) == exc \in {"URLError", "HTTPError"}

\* the handlers without "except Exception"
ListCaughtNetworkOnly(exc) == NetworkError(exc)

\* "except error.URLError" and "except Exception" together
ListCaught(exc) == NetworkError(exc) \/ exc \in {"JSONDecodeError", "TypeError", "KeyError"}

\* lines 83-84 and 101-102: the group as it is put into the URL
GroupSegment(group) ==
    IF \E i \in 1..Len(group) : group[i] = "/" THEN Replace(group, "/", "%2f") ELSE group

\* the URL asked for, as base, path and query
ListRequest(cl, tail) ==
    [base |-> cl.gitlab_url,
     path |-> <<"/", "api", "/", "v4", "/", "groups">> \o tail,
     query |-> <<"per_page=100">>]

ListError(msg, group) == [level |-> "ERROR", msg |-> msg, group |-> group]

\* the outcome of a list request whose try block met exc: what the handlers
\* log and return
ListOutcome(exc, answered, req, msg, group) ==
    [list |-> IF exc = "none" THEN answered ELSE <<>>,
     failed |-> exc # "none",
     exc |-> exc,
     req |-> req,
     log |-> IF exc = "none" \/ ~ListCaught(exc) THEN <<>>
             ELSE IF NetworkError(exc) THEN <<ListError("Network error", <<>>)>>
             ELSE <<ListError(msg, group)>>,
     raises |-> IF exc # "none" /\ ~ListCaught(exc) THEN exc ELSE "none"]

get_all_groups(cl, w, answer) ==
    ListOutcome(ListRaisedBy(TRUE, answer), w.groups, ListRequest(cl, <<>>),
                "Error fetching groups", <<>>)

get_projects_for_group(cl, w, group, answer) ==
    LET known == group \in DOMAIN w.projects
    IN  ListOutcome(ListRaisedBy(known, answer),
                    IF known THEN w.projects[group] ELSE <<>>,
                    ListRequest(cl, <<"/">> \o GroupSegment(group) \o <<"/", "projects">>),
                    "Error fetching projects for group", GroupSegment(group))

get_subgroups_for_group(cl, w, group, answer) ==
    LET known == group \in DOMAIN w.subgroups
    IN  ListOutcome(ListRaisedBy(known, answer),
                    IF known THEN w.subgroups[group] ELSE <<>>,
                    ListRequest(cl, <<"/">> \o GroupSegment(group) \o <<"/", "subgroups">>),
                    "Error fetching subgroups for group", GroupSegment(group))

\* one list request: what was asked and what came of it
ListCall(op, group, r) ==
    [op |-> op, group |-> group, exc |-> r.exc, req |-> r.req, list |-> r.list,
     log |-> r.log]

NoList == [op |-> "none", group |-> <<>>, exc |-> "none", req |-> <<>>, list |-> <<>>,
           log |-> <<>>]

(***************************************************************************)
(* The command line.                                                       *)
(***************************************************************************)
NoArgs ==
    [add_url |-> <<>>, set_url |-> <<>>, list_url |-> FALSE, projects |-> <<>>,
     groups |-> <<>>, all |-> FALSE]

ArgSpace(w) ==
    [add_url : {<<>>, <<ScmHost>>, <<DEFAULT>>},
     set_url : {<<>>, <<ExampleHost>>, <<ScmHost>>, <<DEFAULT>>, <<NoSuchHost>>},
     list_url : BOOLEAN,
     projects : {<<>>, <<<<>>>>, <<w.projects_arg>>},
     groups : {<<>>, <<w.groups_arg>>},
     all : BOOLEAN]

Given(opt) == IF opt # <<>> THEN 1 ELSE 0
Flag(b) == IF b THEN 1 ELSE 0
NumFlags(a) ==
    Given(a.add_url) + Given(a.set_url) + Flag(a.list_url) + Given(a.projects)
    + Given(a.groups) + Flag(a.all)

CommandLines(w) == {a \in ArgSpace(w) : NumFlags(a) <= MaxFlags}

\* what an operator types at the first prompt
Choices == {<<"projects">>, <<" ", "GROUPS">>, <<"ALL", " ">>, <<"both">>}

\* the commands whose failure the runs of the model try
FailableOps == {"clone", "pull", "commit", "push"}

\* the variables of one process
procVars == <<pc, args, cloner, startConfig, mode, method, exitCode, uncaught, printed,
              groupQueue, stack, projQueue, updCalls, lastCall, lastCmds, lastLog,
              listFailed, lastList, sawRaise, visited, lastReqs>>

NoProcess ==
    /\ pc = "idle"
    /\ args = NoArgs
    /\ cloner = NoCloner
    /\ startConfig = NoConfig
    /\ mode = "none"
    /\ method = "none"
    /\ exitCode = 0
    /\ uncaught = "none"
    /\ printed = ""
    /\ groupQueue = <<>>
    /\ stack = <<>>
    /\ projQueue = <<>>
    /\ updCalls = <<>>
    /\ lastCall = NoCall
    /\ lastCmds = <<>>
    /\ lastLog = <<>>
    /\ listFailed = FALSE
    /\ lastList = NoList
    /\ sawRaise = FALSE
    /\ visited = <<>>
    /\ lastReqs = <<>>

Init ==
    /\ world \in Worlds
    /\ config = NoConfig
    /\ dir_exists = {}
    /\ master_ref = {}
    /\ NoProcess

\* the process ends: exit(code), or an uncaught exception (status 1)
Ends(code, msg, exc) ==
    /\ pc' = "done"
    /\ exitCode' = code
    /\ printed' = msg
    /\ uncaught' = exc

NoSync ==
    /\ cloner' = NoCloner
    /\ mode' = "none"
    /\ method' = "none"
    /\ groupQueue' = <<>>
    /\ projQueue' = <<>>

\* lines 322-332: the method called for mode m, with its argument
Dispatch(m, a) ==
    /\ mode' = m
    /\ method' = MethodOf(m)
    /\ pc' = CASE m = "all" -> "clone_all"
               [] m = "projects" -> "repos"
               [] m = "groups" -> "walk"
               [] OTHER -> "prompt"
    /\ projQueue' = IF m = "projects" THEN Split(a.projects[1], ",") ELSE <<>>
    /\ groupQueue' = IF m = "groups" THEN Split(a.groups[1], ",") ELSE <<>>
    /\ exitCode' = 0
    /\ printed' = ""
    /\ uncaught' = "none"

\* __main__, from the start of the process to the call of a cloner method (or
\* to the prompt, or to the end of the process)
Main(a) ==
    /\ pc = "idle"
    /\ args' = a
    /\ startConfig' = config
    /\ UNCHANGED <<world, dir_exists, master_ref, stack, updCalls, lastCall, lastCmds,
                   lastLog, listFailed, lastList, sawRaise, visited, lastReqs>>
    /\ IF ~config.exists
       THEN config' = create_config_file /\ NoSync /\ Ends(1, "config_created", "none")
       ELSE IF Truthy(a.add_url)
       THEN LET r == add_config_section(config, a.add_url[1])
            IN  config' = r.config /\ NoSync /\ Ends(0, r.printed, "none")
       ELSE IF Truthy(a.set_url)
       THEN LET r == set_selected_url(config, a.set_url[1])
            IN  config' = r.config /\ NoSync
                /\ Ends(IF r.exited THEN r.code ELSE 0, r.printed, "none")
       ELSE IF a.list_url
       THEN UNCHANGED config /\ NoSync /\ Ends(0, "urls_listed", "none")
       ELSE LET p == LoadProfile(config)
            IN  /\ UNCHANGED config
                /\ IF ~p.ok
                   THEN NoSync /\ Ends(1, p.printed, p.uncaught)
                   ELSE cloner' = p.cloner /\ Dispatch(SelectMode(a), a)

\* lines 338-359: the operator answers the prompt
Prompt(choice) ==
    /\ pc = "prompt"
    /\ LET c == Lower(Strip(choice))
       IN  IF c = <<"projects">>
           THEN /\ method' = "clone_selected_repositories"
                /\ projQueue' = Split(world.projects_arg, ",")
                /\ pc' = "repos"
                /\ UNCHANGED <<groupQueue, printed, exitCode>>
           ELSE IF c = <<"groups">>
           THEN /\ method' = "clone_selected_groups"
                /\ groupQueue' = Split(world.groups_arg, ",")
                /\ pc' = "walk"
                /\ UNCHANGED <<projQueue, printed, exitCode>>
           ELSE IF c = <<"all">>
           THEN /\ method' = "clone_all"
                /\ pc' = "clone_all"
                /\ UNCHANGED <<projQueue, groupQueue, printed, exitCode>>
           ELSE /\ printed' = "invalid_choice"
                /\ pc' = "done"
                /\ exitCode' = 0
                /\ UNCHANGED <<method, projQueue, groupQueue>>
    /\ UNCHANGED <<world, config, dir_exists, master_ref, args, cloner, startConfig, mode,
                   uncaught, stack, updCalls, lastCall, lastCmds, lastLog, listFailed,
                   lastList,
                   sawRaise, visited, lastReqs>>

(***************************************************************************)
(* clone_all, clone_selected_groups and clone_group_recursively.  A frame  *)
(* of clone_group_recursively is at "enter" (before line 184), in its      *)
(* project loop ("projects") or in its subgroup loop ("subgroups"); todo   *)
(* is what is left of the list the loop runs over.                         *)
(***************************************************************************)
Frame(group) == [group |-> group, stage |-> "enter", todo |-> <<>>]
Top == stack[Len(stack)]
SetTop(f) == [stack EXCEPT ![Len(stack)] = f]
Pop == SubSeq(stack, 1, Len(stack) - 1)

WalkFrame ==
    /\ UNCHANGED <<world, config, dir_exists, master_ref, args, cloner, startConfig, mode,
                   method, exitCode, uncaught, printed, projQueue, updCalls, lastCall,
                   lastCmds, lastLog, sawRaise, lastReqs>>
    /\ lastList' = NoList

\* what a list request leaves alone
ListFrame ==
    UNCHANGED <<world, config, dir_exists, master_ref, args, cloner, startConfig, mode,
                method, printed, projQueue, updCalls, lastCall, lastCmds, lastLog,
                sawRaise, lastReqs, visited>>

\* an exception that leaves a list request leaves every loop and ends the process
ListRaises(exc) ==
    /\ pc' = "done"
    /\ exitCode' = 1
    /\ uncaught' = exc

\* clone_all, line 193
GetAllGroups(answer) ==
    /\ pc = "clone_all"
    /\ LET r == get_all_groups(cloner, world, answer)
       IN  /\ listFailed' = (listFailed \/ r.failed)
           /\ lastList' = ListCall("groups", <<>>, r)
           /\ IF r.raises # "none"
              THEN ListRaises(r.raises) /\ UNCHANGED groupQueue
              ELSE groupQueue' = r.list /\ pc' = "walk" /\ UNCHANGED <<exitCode, uncaught>>
    /\ UNCHANGED stack
    /\ ListFrame

\* the loop taking its list from the end
NextGroupFromEnd ==
    /\ pc = "walk"
    /\ stack = <<>>
    /\ groupQueue # <<>>
    /\ stack' = <<Frame(groupQueue[Len(groupQueue)])>>
    /\ groupQueue' = SubSeq(groupQueue, 1, Len(groupQueue) - 1)
    /\ visited' = Append(visited, groupQueue[Len(groupQueue)])
    /\ UNCHANGED <<pc, listFailed>>
    /\ WalkFrame

\* the loops of clone_all and clone_selected_groups: the call for the next group
NextGroup ==
    /\ pc = "walk"
    /\ stack = <<>>
    /\ groupQueue # <<>>
    /\ stack' = <<Frame(Head(groupQueue))>>
    /\ groupQueue' = Tail(groupQueue)
    /\ visited' = Append(visited, Head(groupQueue))
    /\ UNCHANGED <<pc, listFailed>>
    /\ WalkFrame

\* clone_group_recursively, line 184
GetProjects(answer) ==
    /\ pc = "walk"
    /\ stack # <<>>
    /\ Top.stage = "enter"
    /\ LET r == get_projects_for_group(cloner, world, Top.group, answer)
       IN  /\ listFailed' = (listFailed \/ r.failed)
           /\ lastList' = ListCall("projects", Top.group, r)
           /\ IF r.raises # "none"
              THEN ListRaises(r.raises) /\ UNCHANGED stack
              ELSE /\ stack' = SetTop([Top EXCEPT !.stage = "projects", !.todo = r.list])
                   /\ UNCHANGED <<pc, exitCode, uncaught>>
    /\ UNCHANGED groupQueue
    /\ ListFrame

\* clone_group_recursively, line 188
GetSubgroups(answer) ==
    /\ pc = "walk"
    /\ stack # <<>>
    /\ Top.stage = "projects"
    /\ Top.todo = <<>>
    /\ LET r == get_subgroups_for_group(cloner, world, Top.group, answer)
       IN  /\ listFailed' = (listFailed \/ r.failed)
           /\ lastList' = ListCall("subgroups", Top.group, r)
           /\ IF r.raises # "none"
              THEN ListRaises(r.raises) /\ UNCHANGED stack
              ELSE /\ stack' = SetTop([Top EXCEPT !.stage = "subgroups", !.todo = r.list])
                   /\ UNCHANGED <<pc, exitCode, uncaught>>
    /\ UNCHANGED groupQueue
    /\ ListFrame

\* the subgroup loop without its call, as the flat loop of github-clone-repos.py
RecurseSkipsSubgroups ==
    /\ pc = "walk"
    /\ stack # <<>>
    /\ Top.stage = "subgroups"
    /\ Top.todo # <<>>
    /\ stack' = SetTop([Top EXCEPT !.todo = Tail(@)])
    /\ UNCHANGED <<pc, groupQueue, listFailed, visited>>
    /\ WalkFrame

\* the subgroup loop left after its first call
RecurseFirstOnly ==
    /\ pc = "walk"
    /\ stack # <<>>
    /\ Top.stage = "subgroups"
    /\ Top.todo # <<>>
    /\ stack' = Append(SetTop([Top EXCEPT !.todo = <<>>]), Frame(Head(Top.todo)))
    /\ visited' = Append(visited, Head(Top.todo))
    /\ UNCHANGED <<pc, groupQueue, listFailed>>
    /\ WalkFrame

\* clone_group_recursively, lines 189-190: the call for the next subgroup
Recurse ==
    /\ pc = "walk"
    /\ stack # <<>>
    /\ Top.stage = "subgroups"
    /\ Top.todo # <<>>
    /\ stack' = Append(SetTop([Top EXCEPT !.todo = Tail(@)]), Frame(Head(Top.todo)))
    /\ visited' = Append(visited, Head(Top.todo))
    /\ UNCHANGED <<pc, groupQueue, listFailed>>
    /\ WalkFrame

\* clone_group_recursively returns
Return ==
    /\ pc = "walk"
    /\ stack # <<>>
    /\ Top.stage = "subgroups"
    /\ Top.todo = <<>>
    /\ stack' = Pop
    /\ UNCHANGED <<pc, groupQueue, listFailed, visited>>
    /\ WalkFrame

(***************************************************************************)
(* One call of update_project, from the loop of                            *)
(* clone_selected_repositories or of clone_group_recursively.              *)
(***************************************************************************)
InRepoLoop == pc = "repos" /\ projQueue # <<>>
InWalkLoop == pc = "walk" /\ stack # <<>> /\ Top.stage = "projects" /\ Top.todo # <<>>
CurrentProject == IF pc = "repos" THEN Head(projQueue) ELSE Head(Top.todo)

\* the directories the commands create: a clone that exits 0 creates its target
Cloned(cmds) ==
    {cmds[i].a2 : i \in {j \in 1..Len(cmds) : cmds[j].op = "clone" /\ cmds[j].status = 0}}

UpdateProject(meta, fails) ==
    /\ InRepoLoop \/ InWalkLoop
    /\ LET project == CurrentProject
           exists == project \in dir_exists
           master == project \in master_ref
           r == update_project(cloner, project, exists, master, meta, fails)
       IN  /\ meta = "not_requested" <=> r.reqs = <<>>
           /\ lastReqs' = r.reqs
           /\ fails \subseteq OpsRun(exists, meta)
           /\ Cardinality(fails) <= MaxFailures
           \* a repository the instance does not have cannot be cloned
           /\ (~exists /\ project \notin DOMAIN world.default_branch) => "clone" \in fails
           /\ lastCall' = [project |-> project, exists |-> exists, master |-> master,
                           meta |-> meta]
           /\ lastCmds' = r.cmds
           /\ lastLog' = r.log
           /\ updCalls' = Append(updCalls, project)
           /\ sawRaise' = (sawRaise \/ RaisedBy(lastCall.meta) # "none")
           /\ dir_exists' = dir_exists \cup Cloned(r.cmds)
           /\ master_ref' = master_ref
                  \cup {d \in Cloned(r.cmds) : world.default_branch[d] = "master"}
           /\ IF r.raises # "none"
              THEN \* the exception leaves every loop and ends the process
                   /\ pc' = "done"
                   /\ exitCode' = 1
                   /\ uncaught' = r.raises
                   /\ UNCHANGED <<projQueue, stack>>
              ELSE /\ IF pc = "repos"
                      THEN projQueue' = Tail(projQueue) /\ UNCHANGED stack
                      ELSE stack' = SetTop([Top EXCEPT !.todo = Tail(@)])
                           /\ UNCHANGED projQueue
                   /\ UNCHANGED <<pc, exitCode, uncaught>>
    /\ UNCHANGED <<world, config, args, cloner, startConfig, mode, method, printed,
                   groupQueue, listFailed, visited>>
    /\ lastList' = NoList

\* the cloner method returns and the process ends at the end of the file
Finish ==
    /\ \/ pc = "repos" /\ projQueue = <<>>
       \/ pc = "walk" /\ stack = <<>> /\ groupQueue = <<>>
    /\ pc' = "done"
    /\ exitCode' = 0
    /\ UNCHANGED <<world, config, dir_exists, master_ref, args, cloner, startConfig, mode,
                   method, uncaught, printed, groupQueue, stack, projQueue, updCalls,
                   lastCall, lastCmds, lastLog, listFailed, sawRaise, visited, lastReqs>>
    /\ lastList' = NoList

\* The process is gone: nothing of it is left but the files.
ProcessGone ==
    /\ pc = "done"
    /\ pc' = "idle"
    /\ args' = NoArgs
    /\ cloner' = NoCloner
    /\ startConfig' = NoConfig
    /\ mode' = "none"
    /\ method' = "none"
    /\ exitCode' = 0
    /\ uncaught' = "none"
    /\ printed' = ""
    /\ groupQueue' = <<>>
    /\ stack' = <<>>
    /\ projQueue' = <<>>
    /\ updCalls' = <<>>
    /\ lastCall' = NoCall
    /\ lastCmds' = <<>>
    /\ lastLog' = <<>>
    /\ listFailed' = FALSE
    /\ lastList' = NoList
    /\ sawRaise' = FALSE
    /\ visited' = <<>>
    /\ lastReqs' = <<>>
    /\ UNCHANGED <<world, config, dir_exists, master_ref>>

(***************************************************************************)
(* Between two runs the operator edits the configuration file, as the tool *)
(* asks ("Please update it"); an edit can name a host that has no section, *)
(* which lines 312-314 check for.                                          *)
(***************************************************************************)
OperatorEdits(name) ==
    /\ pc = "idle"
    /\ config.exists
    /\ config.selected_url # name
    /\ config' = [config EXCEPT !.selected_url = name]
    /\ UNCHANGED <<world, dir_exists, master_ref>>
    /\ UNCHANGED procVars

Next ==
    \/ \E a \in CommandLines(world) : Main(a)
    \/ \E c \in Choices : Prompt(c)
    \/ \E answer \in ListAnswers : GetAllGroups(answer)
    \/ NextGroup
    \/ \E answer \in ListAnswers : GetProjects(answer)
    \/ \E answer \in ListAnswers : GetSubgroups(answer)
    \/ Recurse
    \/ Return
    \/ \E meta \in MetaAnswers \cup {"not_requested"}, fails \in SUBSET FailableOps :
           UpdateProject(meta, fails)
    \/ Finish
    \/ ProcessGone
    \/ OperatorEdits(NoSuchHost)

Spec == Init /\ [][Next]_vars

(***************************************************************************)
(* The walk alone: the configuration file is the one create_config_file    *)
(* wrote, and every run is given --all or --groups.  Each step of the walk *)
(* is taken once it is enabled: the code is sequential, and the list       *)
(* requests and the git commands are taken to return.                      *)
(***************************************************************************)
WalkInit ==
    /\ world \in Worlds
    /\ config = create_config_file
    /\ dir_exists = {}
    /\ master_ref = {}
    /\ NoProcess

WalkCommandLines(w) ==
    {a \in CommandLines(w) :
        /\ a.add_url = <<>> /\ a.set_url = <<>> /\ ~a.list_url
        /\ a.all \/ (Truthy(a.groups) /\ ~Truthy(a.projects))}

NextWalk ==
    \/ \E a \in WalkCommandLines(world) : Main(a)
    \/ \E answer \in ListAnswers : GetAllGroups(answer)
    \/ NextGroup
    \/ \E answer \in ListAnswers : GetProjects(answer)
    \/ \E answer \in ListAnswers : GetSubgroups(answer)
    \/ Recurse
    \/ Return
    \/ \E meta \in MetaAnswers \cup {"not_requested"}, fails \in SUBSET FailableOps :
           UpdateProject(meta, fails)
    \/ Finish
    \/ ProcessGone

FairWalk == WalkInit /\ [][NextWalk]_vars /\ WF_vars(NextWalk)

(***************************************************************************)
(* The configuration store alone: every run is given --add_url, --set_url  *)
(* or --list_url, or no flag at all; a run without a flag loads the        *)
(* selected profile and comes to the prompt, where the operator gives no   *)
(* valid choice.  The configuration file is changed by the tool only.      *)
(***************************************************************************)
ConfigCommandLines(w) ==
    {a \in CommandLines(w) : a.projects = <<>> /\ a.groups = <<>> /\ ~a.all}

NextConfig ==
    \/ \E a \in ConfigCommandLines(world) : Main(a)
    \/ Prompt(<<"both">>)
    \/ ProcessGone

ConfigSpec == Init /\ [][NextConfig]_vars

(***************************************************************************)
(* Definitions the properties below are stated with.                       *)
(***************************************************************************)
Ops(cmds) == [i \in 1..Len(cmds) |-> cmds[i].op]
IsPrefix(s, t) == Len(s) <= Len(t) /\ s = SubSeq(t, 1, Len(s))
Called == lastCall # NoCall
\* the profile the run loaded
Profile == startConfig.sections[startConfig.selected_url]
RepoUrl(base, project) == base \o <<"/">> \o project \o <<".git">>

\* the groups some subgroup path from g reaches, once per path, parents first
\* and siblings in the order of the answer; and the projects met on the way
SubgroupsIn(w, g) == IF g \in DOMAIN w.subgroups THEN w.subgroups[g] ELSE <<>>
ProjectsIn(w, g) == IF g \in DOMAIN w.projects THEN w.projects[g] ELSE <<>>
RECURSIVE PathsFrom(_, _), PathsFromAll(_, _)
PathsFrom(w, g) == <<g>> \o PathsFromAll(w, SubgroupsIn(w, g))
PathsFromAll(w, gs) ==
    IF gs = <<>> THEN <<>> ELSE PathsFrom(w, Head(gs)) \o PathsFromAll(w, Tail(gs))
RECURSIVE ProjectsAlong(_, _)
ProjectsAlong(w, gs) ==
    IF gs = <<>> THEN <<>> ELSE ProjectsIn(w, Head(gs)) \o ProjectsAlong(w, Tail(gs))

\* the groups the run's method starts a walk from
StartGroups ==
    IF method = "clone_all" THEN world.groups
    ELSE IF mode = "groups" THEN Split(args.groups[1], ",")
    ELSE Split(world.groups_arg, ",")
Walking == method \in {"clone_all", "clone_selected_groups"} /\ pc \in {"walk", "done"}

(***************************************************************************)
(* Properties.                                                             *)
(***************************************************************************)
NoManagement == ~Truthy(args.add_url) /\ ~Truthy(args.set_url) /\ ~args.list_url

\* C1 as stated: the mode is chosen in the order --projects, --groups, --all,
\* prompt; with --projects given, clone_selected_repositories is the method
\* called whatever else is given.
C1_ProjectsFirst ==
    mode # "none" =>
        /\ Truthy(args.projects) => method = "clone_selected_repositories"
        /\ (~Truthy(args.projects) /\ Truthy(args.groups))
               => method = "clone_selected_groups"
        /\ (~Truthy(args.projects) /\ ~Truthy(args.groups) /\ args.all)
               => method = "clone_all"
        /\ (~Truthy(args.projects) /\ ~Truthy(args.groups) /\ ~args.all)
               => mode = "prompt"

\* C1, amended: exactly one mode is selected, in the order --all, --projects
\* (non-empty), --groups (non-empty), prompt; with --all given clone_all is the
\* method called whatever else is given, and only the prompt mode leaves the
\* choice of the method to the operator.
C1_AllFirst ==
    mode # "none" =>
        /\ args.all => (mode = "all" /\ method = "clone_all")
        /\ (~args.all /\ Truthy(args.projects))
               => (mode = "projects" /\ method = "clone_selected_repositories")
        /\ (~args.all /\ ~Truthy(args.projects) /\ Truthy(args.groups))
               => (mode = "groups" /\ method = "clone_selected_groups")
        /\ (~args.all /\ ~Truthy(args.projects) /\ ~Truthy(args.groups))
               => mode = "prompt"
        /\ (mode = "projects") => IsPrefix(updCalls, Split(args.projects[1], ","))

\* a run given both --projects and --all has walked the groups to its end
C1_Witness ==
    /\ pc = "done"
    /\ args.all /\ Truthy(args.projects)
    /\ method = "clone_all"
    /\ updCalls # <<>>

\* C2 as stated: a call for a project whose directory is absent runs one
\* command, a clone of {instance URL}/{project}.git into {project}, and makes
\* no request.
C2_CloneFromBase ==
    (Called /\ ~lastCall.exists) =>
        /\ Ops(lastCmds) = <<"clone">>
        /\ lastCmds[1].a1 = RepoUrl(Profile.url, lastCall.project)
        /\ lastCmds[1].a2 = lastCall.project
        /\ lastCmds[1].cwd = <<>>
        /\ lastReqs = <<>>

\* C2, amended: a call for a project whose directory is absent runs one
\* command, a clone into {project} of {credentialed URL}/{project}.git, where
\* the credentialed URL is the constructor's https://{user}:{token}@ followed
\* by the instance URL with its leading characters of "https://" stripped; it
\* runs no other command and makes no request.
C2_CloneOnly ==
    (Called /\ ~lastCall.exists) =>
        /\ Ops(lastCmds) = <<"clone">>
        /\ lastCmds[1].a1 =
               RepoUrl(HTTPS \o Profile.user \o <<":">> \o Profile.private_token \o <<"@">>
                             \o LStrip(Profile.url, HttpsChars),
                       lastCall.project)
        /\ lastCmds[1].a2 = lastCall.project
        /\ lastCmds[1].cwd = <<>>
        /\ lastReqs = <<>>

\* a clone of a project of the instance that has succeeded
C2_Witness ==
    /\ Called /\ ~lastCall.exists
    /\ lastCall.project \in DOMAIN world.default_branch
    /\ lastCall.project \in dir_exists

\* C3: a call for a project whose directory is present and whose metadata say
\* archived runs the pull and the add and nothing else, and returns.
C3_ArchivedPullAddOnly ==
    (Called /\ lastCall.exists /\ lastCall.meta = "archived") =>
        /\ Ops(lastCmds) = <<"pull", "add">>
        /\ \A i \in 1..Len(lastCmds) : lastCmds[i].cwd = lastCall.project
        /\ uncaught = "none"

C3_Witness ==
    /\ Called /\ lastCall.exists /\ lastCall.meta = "archived"
    /\ Len(lastReqs) = 1

\* C4: a call for a project whose directory is present and whose metadata say
\* not archived runs pull B, add, commit, remote set-url origin
\* {instance URL}/{project}.git, push origin B and the credential helper
\* configuration, in this order; B is master iff the master ref file existed
\* when the call began, else main.
C4_ActiveOrder ==
    (Called /\ lastCall.exists /\ lastCall.meta = "active") =>
        LET B == IF lastCall.master THEN <<"master">> ELSE <<"main">>
        IN  /\ Ops(lastCmds) = <<"pull", "add", "commit", "remote set-url", "push",
                                 "config credential.helper">>
            /\ lastCmds[1].a2 = B
            /\ lastCmds[5].a2 = B
            /\ lastCmds[5].a1 = <<"origin">>
            /\ lastCmds[4].a1 = <<"origin">>
            /\ lastCmds[4].a2 = RepoUrl(Profile.url, lastCall.project)
            /\ lastCmds[6].a2 = <<"--global", "store">>

C4_Witness ==
    /\ Called /\ lastCall.exists /\ lastCall.meta = "active"
    /\ lastCall.master
    /\ lastCall.project \in master_ref

\* C5: no update_project call ends the run: whatever fails in a call, the run
\* goes on, and a finished clone_selected_repositories has called
\* update_project for every project of its list, in order.
C5_NeverRaises ==
    /\ method # "none" => (uncaught = "none" /\ exitCode = 0)
    /\ (method = "clone_selected_repositories" /\ pc \in {"repos", "done"}) =>
           LET list == IF mode = "projects" THEN Split(args.projects[1], ",")
                       ELSE Split(world.projects_arg, ",")
           IN  /\ list = updCalls \o projQueue
               /\ pc = "done" => projQueue = <<>>
    /\ (Walking /\ ~listFailed) =>
           IsPrefix(updCalls, ProjectsAlong(world, PathsFromAll(world, StartGroups)))

\* the metadata request of an earlier project failed, a later project was processed
C5_Witness ==
    /\ pc = "done"
    /\ method = "clone_selected_repositories"
    /\ sawRaise
    /\ Len(updCalls) = 2

\* C6: every clone, pull, commit or push that exits non-zero leaves an error
\* record naming the project in the log.
C6_FailureLogged ==
    \A i \in 1..Len(lastCmds) :
        (lastCmds[i].op \in {"clone", "pull", "commit", "push"} /\ lastCmds[i].status # 0)
            => \E j \in 1..Len(lastLog) :
                   lastLog[j].level = "ERROR" /\ lastLog[j].project = lastCall.project

InScenario == world = TeamWorld /\ method = "clone_all" /\ pc = "done" /\ ~listFailed

C8_VisitsPerPath ==
    (Walking /\ ~listFailed) =>
        LET paths == PathsFromAll(world, StartGroups)
        IN  /\ IsPrefix(visited, paths)
            /\ IsPrefix(updCalls, ProjectsAlong(world, paths))
            /\ pc = "done" => (visited = paths /\ updCalls = ProjectsAlong(world, paths))

\* C8, with its termination: the visits above hold throughout, and a walk that
\* has begun reaches the end of the run.
C8_WalkTerminates == []C8_VisitsPerPath /\ ((pc = "walk") ~> (pc = "done"))

\* the group two subgroup paths reach was visited twice, its project processed twice
C8_Witness ==
    /\ world = DiamondWorld /\ method = "clone_all" /\ pc = "done" /\ ~listFailed
    /\ visited = <<root, root_a, shared, root_b, shared>>
    /\ updCalls = <<proj_a, proj_s, proj_s>>

SetUrlRun ==
    /\ pc = "done" /\ startConfig.exists
    /\ ~Truthy(args.add_url) /\ Truthy(args.set_url)

\* C9 as stated: --set_url with a name that is no section leaves the
\* configuration as it was, prints the error and does not exit non-zero.
C9_UnknownExitsZero ==
    (SetUrlRun /\ args.set_url[1] \notin DOMAIN startConfig.sections) =>
        /\ config = startConfig
        /\ printed = "error_no_section"
        /\ exitCode = 0

\* C9, amended: --set_url with a name that is neither a section nor DEFAULT
\* leaves the configuration as it was, prints the error and exits with status
\* 1; --set_url DEFAULT, which names no section either, is accepted: DEFAULT
\* becomes the selected name and the run exits with status 0.
C9_UnknownExitsOne ==
    (SetUrlRun /\ args.set_url[1] \notin DOMAIN startConfig.sections) =>
        IF args.set_url[1] = DEFAULT
        THEN /\ config = [startConfig EXCEPT !.selected_url = DEFAULT]
             /\ printed = "selected_set"
             /\ exitCode = 0
        ELSE /\ config = startConfig
             /\ printed = "error_no_section"
             /\ exitCode = 1

C9_Witness ==
    /\ SetUrlRun
    /\ args.set_url[1] = NoSuchHost
    /\ startConfig.selected_url = ScmHost
    /\ config.selected_url = ScmHost
    /\ exitCode = 1

Times(seq, x) == Cardinality({i \in 1..Len(seq) : seq[i] = x})
ListFailure == lastList.op # "none" /\ lastList.exc # "none"

\* what a list request leaves: the failed request returned the empty list and
\* logged one error record, no request ended the run, and the caller goes on
\* with the list returned; a finished walk has called clone_group_recursively
\* for every group of its list
C11_Returned ==
    /\ ListFailure =>
           /\ lastList.list = <<>>
           /\ Len(lastList.log) = 1
           /\ lastList.log[1].level = "ERROR"
    /\ lastList.exc = "none" => lastList.log = <<>>
    /\ lastList.op # "none" => (pc = "walk" /\ uncaught = "none" /\ exitCode = 0)
    /\ lastList.op = "groups" => (groupQueue = lastList.list /\ stack = <<>>)
    /\ lastList.op = "projects" =>
           Top = [group |-> lastList.group, stage |-> "projects", todo |-> lastList.list]
    /\ lastList.op = "subgroups" =>
           Top = [group |-> lastList.group, stage |-> "subgroups", todo |-> lastList.list]
    /\ (Walking /\ pc = "done" /\ (method = "clone_all" => visited # <<>>)) =>
           \A i \in 1..Len(StartGroups) : Times(visited, StartGroups[i]) > 0

\* C11: a list request that meets a transport failure, an HTTP error or an
\* undecodable body returns the empty list and logs an error, and it never ends
\* the run; the walk goes on as if the group had no children of that kind: the
\* step after a failed project listing of a group is the subgroup listing of
\* the same group, the step after a failed subgroup listing is the return of
\* that call, and the groups still in the list are walked.
C11_ListFailuresContained ==
    /\ []C11_Returned
    /\ [][/\ (ListFailure /\ lastList.op = "projects") =>
                 /\ lastList'.op = "subgroups"
                 /\ lastList'.group = lastList.group
                 /\ UNCHANGED <<groupQueue, visited, updCalls>>
          /\ (ListFailure /\ lastList.op = "subgroups") =>
                 /\ stack' = Pop
                 /\ UNCHANGED <<pc, groupQueue, visited, updCalls>>
          /\ (ListFailure /\ lastList.op = "groups") => (pc' = "done" /\ exitCode' = 0)
         ]_vars

\* --groups nogroup,r/a: both listings of nogroup failed and r/a was walked; the
\* project listing of r/a failed (r/a/pa was not processed), and its subgroup
\* r/shared was walked all the same
C11_Witness ==
    /\ world = DiamondWorld /\ method = "clone_selected_groups" /\ pc = "done"
    /\ listFailed
    /\ visited = <<nogroup, root_a, shared>>
    /\ updCalls = <<proj_s>>

\* s is t with some of its elements left out
RECURSIVE IsSubseq(_, _)
IsSubseq(s, t) ==
    IF s = <<>> THEN TRUE
    ELSE IF t = <<>> THEN FALSE
    ELSE IF Head(s) = Head(t) THEN IsSubseq(Tail(s), Tail(t))
    ELSE IsSubseq(s, Tail(t))

GroupsRun == method = "clone_selected_groups" /\ pc \in {"walk", "done"}

\* C12: clone_selected_groups processes the projects in the order of the walk:
\* the listed groups in list order, under each group its direct projects in
\* the order of the answer and then its subgroups, depth first, in the order of
\* the answer.  The update_project calls of a run are that sequence with the
\* projects of the failed listings left out, and all of it when no listing
\* failed; every command of a call is run in that call's project before the
\* next call begins.
C12_ListOrder ==
    /\ GroupsRun =>
           LET paths == PathsFromAll(world, StartGroups)
           IN  /\ IsSubseq(visited, paths)
               /\ IsSubseq(updCalls, ProjectsAlong(world, paths))
               /\ (pc = "done" /\ ~listFailed) => updCalls = ProjectsAlong(world, paths)
               \* a call that has direct projects left has no subgroup call under it
               /\ \A i \in 1..Len(stack) :
                      stack[i].stage \in {"enter", "projects"} => i = Len(stack)
    /\ (GroupsRun /\ Called) =>
           /\ updCalls # <<>> /\ updCalls[Len(updCalls)] = lastCall.project
           /\ \A i \in 1..Len(lastCmds) :
                  \/ lastCmds[i].cwd = lastCall.project
                  \/ lastCmds[i].op = "clone" /\ lastCmds[i].a2 = lastCall.project

\* --groups teamA/infra,teamA: the project of the first listed group, then the
\* direct project of teamA, then the project of its subgroup
C12_Witness ==
    /\ world = TeamWorld /\ GroupsRun /\ pc = "done"
    /\ StartGroups = <<teamA_infra, teamA>>
    /\ updCalls = <<tool1, svc1, tool1>>
    /\ visited = <<teamA_infra, teamA, teamA_infra>>

\* seg is the identifier id with each slash written as enc, and holds no slash
Encodes(seg, id, enc) ==
    /\ Len(seg) = Len(id)
    /\ \A i \in 1..Len(id) : seg[i] = (IF id[i] = "/" THEN enc ELSE id[i])
    /\ \A i \in 1..Len(seg) : seg[i] # "/"
GroupsPath == <<"/", "api", "/", "v4", "/", "groups", "/">>
ProjectsPath == <<"/", "api", "/", "v4", "/", "projects", "/">>

MetadataFailed == Called /\ lastCall.exists /\ RaisedBy(lastCall.meta) # "none"

\* C14: when the metadata request of a project whose directory is present
\* fails (transport failure, undecodable body, or a body that is no object),
\* the call has run the pull and the add and nothing else: no commit, no
\* remote set-url, no push and no credential configuration, so what the add
\* staged stays uncommitted; the call logs an error record naming the project
\* and returns, and the run goes on.
C14_FailedMetadataStops ==
    MetadataFailed =>
        /\ Len(lastCmds) = 2
        /\ lastCmds[1] = PullCmd(cloner, lastCall.project, lastCall.master,
                                 {c \in FailableOps : c = "pull" /\ lastCmds[1].status # 0})
        /\ lastCmds[2].op = "add" /\ lastCmds[2].cwd = lastCall.project
        /\ \A i \in 1..Len(lastCmds) :
               lastCmds[i].op \notin {"commit", "remote set-url", "push",
                                      "config credential.helper"}
        /\ lastReqs = <<ProjectRequest(cloner, lastCall.project)>>
        /\ lastLog[Len(lastLog)] = Error("Error updating project", lastCall.project)
        /\ \A i \in 1..(Len(lastLog) - 1) : lastLog[i].level # "ERROR"
        /\ uncaught = "none"
        /\ pc \in {"repos", "walk", "done"}
        /\ pc = "done" => exitCode = 0

\* the body of the metadata answer did not decode; the run ended with status 0
C14_Witness ==
    /\ MetadataFailed
    /\ lastCall.meta = "JSONDecodeError"
    /\ Ops(lastCmds) = <<"pull", "add">>
    /\ lastCmds[1].status = 0
    /\ pc = "done"
    /\ exitCode = 0

\* the host of an instance URL https://<host>
HostOf(url) == SubSeq(url, Len(HTTPS) + 1, Len(url))

\* C15 as stated: for an instance URL https://<host> the credentialed URL of
\* the cloner is https://<user>:<token>@<host>, the host whole.
C15_HostKept ==
    (cloner # NoCloner /\ IsPrefix(HTTPS, cloner.gitlab_url)) =>
        cloner.gitlab_url_with_token
            = HTTPS \o cloner.user \o <<":">> \o cloner.private_token \o <<"@">>
                    \o HostOf(cloner.gitlab_url)

ProfileFields == {"url", "user", "private_token"}

\* C16 as stated: whatever --add_url and --set_url runs the configuration file
\* of create_config_file has gone through, the selected name is the name of a
\* section that holds url, user and private_token, so a run that loads the
\* profile does not fail; --add_url leaves the selected name and the sections
\* there were as they are, and a rejected --set_url leaves the file as it is.
C16_SelectedHasProfile ==
    /\ config.exists =>
           /\ config.selected_url \in DOMAIN config.sections
           /\ \A n \in DOMAIN config.sections :
                  DOMAIN config.sections[n] = ProfileFields
    /\ (pc \in {"prompt", "done"} /\ startConfig.exists /\ NoManagement) =>
           (uncaught = "none" /\ exitCode = 0 /\ cloner # NoCloner)
    /\ (pc = "done" /\ startConfig.exists /\ Truthy(args.add_url)) =>
           /\ config.selected_url = startConfig.selected_url
           /\ \A n \in DOMAIN startConfig.sections :
                  n \in DOMAIN config.sections
                  /\ config.sections[n] = startConfig.sections[n]
    /\ (SetUrlRun /\ printed = "error_no_section") => config = startConfig

====
